---- MODULE Spec2Model ----
(***************************************************************************)
(* planner_gen.py: the calendar page planner (the week loop that fills the *)
(* replacements mapping and appends A5 pages) and the sheet imposition     *)
(* loop (padding to a multiple of four, packing A5 pages onto A4 sheets).  *)
(***************************************************************************)
EXTENDS Integers, Sequences, FiniteSets, TLC

\* The years given to --year.
MinYear == 2000
MaxYear == 2100

VARIABLES
    year,           \* args.year
    reorder,        \* args.reorder
    pc,             \* position in the script
    week,           \* loop variable of the week loop
    replacements,   \* TemplatePageManager.replacements (token -> string)
    a5_pages,       \* TemplatePageManager.a5_pages (file names, None = blank)
    output_svg,     \* the A5 file written last by add_page_from_template
    padded,         \* a5_pages as it enters the packing loop (history)
    a4_num,         \* number of the next A4 sheet
    a4_svg_files    \* the A4 sheets written so far, in order

vars == <<year, reorder, pc, week, replacements, a5_pages, output_svg,
          padded, a4_num, a4_svg_files>>

\* Python's None in a5_pages; no file name equals it.
None == "None"

-----------------------------------------------------------------------------
(* str(int) and the {n:03d} format *)

Digit == <<"0", "1", "2", "3", "4", "5", "6", "7", "8", "9">>

RECURSIVE Str(_)
Str(n) == IF n < 10 THEN Digit[n + 1] ELSE Str(n \div 10) \o Digit[(n % 10) + 1]

Pad3(n) == IF n < 10 THEN "00" \o Str(n)
           ELSE IF n < 100 THEN "0" \o Str(n)
           ELSE Str(n)

-----------------------------------------------------------------------------
(* datetime.date: proleptic Gregorian ordinals, as the standard library    *)
(* computes them.  A date is the record [year, month, day].                *)

IsLeap(y) == y % 4 = 0 /\ (y % 100 # 0 \/ y % 400 = 0)

DaysInMonth(y, m) ==
    IF m = 2 THEN (IF IsLeap(y) THEN 29 ELSE 28)
    ELSE IF m \in {4, 6, 9, 11} THEN 30 ELSE 31

DaysBeforeYear(y) ==
    (y - 1) * 365 + ((y - 1) \div 4) - ((y - 1) \div 100) + ((y - 1) \div 400)

\* The days of a common year before the first of each month.
DaysBeforeMonthTable == <<0, 31, 59, 90, 120, 151, 181, 212, 243, 273, 304, 334>>

DaysBeforeMonth(y, m) ==
    DaysBeforeMonthTable[m] + (IF m > 2 /\ IsLeap(y) THEN 1 ELSE 0)

\* date.toordinal()
Ymd2Ord(y, m, d) == DaysBeforeYear(y) + DaysBeforeMonth(y, m) + d

\* date.fromordinal()
Ord2Ymd(n) ==
    LET c == ((n - 1) \div 365) + 1
        y == CHOOSE yy \in (c - 2)..c :
                 DaysBeforeYear(yy) < n /\ n <= DaysBeforeYear(yy + 1)
        doy == n - DaysBeforeYear(y)
        m == CHOOSE mm \in 1..12 :
                 /\ DaysBeforeMonth(y, mm) < doy
                 /\ doy <= DaysBeforeMonth(y, mm) + DaysInMonth(y, mm)
    IN  [year |-> y, month |-> m, day |-> doy - DaysBeforeMonth(y, m)]

\* datetime.date(y, m, d)
Date(y, m, d) == [year |-> y, month |-> m, day |-> d]

ToOrdinal(date) == Ymd2Ord(date.year, date.month, date.day)

\* date + datetime.timedelta(days=n)
AddDays(date, n) == Ord2Ymd(ToOrdinal(date) + n)

\* The ordinal of the Monday of ISO week 1 of year y.
IsoWeek1Monday(y) ==
    LET firstday == Ymd2Ord(y, 1, 1)
        firstweekday == (firstday + 6) % 7
        week1monday == firstday - firstweekday
    IN  IF firstweekday > 3 THEN week1monday + 7 ELSE week1monday

\* datetime.date.fromisocalendar(y, w, d)
FromIsoCalendar(y, w, d) == Ord2Ymd(IsoWeek1Monday(y) + (w - 1) * 7 + (d - 1))

\* date.isocalendar(): [year, week, weekday]
IsoCalendar(date) ==
    LET today == ToOrdinal(date)
        y == date.year
        wk == (today - IsoWeek1Monday(y)) \div 7
        dy == (today - IsoWeek1Monday(y)) % 7
    IN  IF today < IsoWeek1Monday(y)
        THEN [year |-> y - 1,
              week |-> ((today - IsoWeek1Monday(y - 1)) \div 7) + 1,
              weekday |-> ((today - IsoWeek1Monday(y - 1)) % 7) + 1]
        ELSE IF wk >= 52 /\ today >= IsoWeek1Monday(y + 1)
        THEN [year |-> y + 1, week |-> 1, weekday |-> dy + 1]
        ELSE [year |-> y, week |-> wk + 1, weekday |-> dy + 1]

\* date.strftime("%B").upper()
MonthName == <<"JANUARY", "FEBRUARY", "MARCH", "APRIL", "MAY", "JUNE", "JULY",
               "AUGUST", "SEPTEMBER", "OCTOBER", "NOVEMBER", "DECEMBER">>

-----------------------------------------------------------------------------
(* TemplatePageManager *)

\* Variant: a fresh mapping that holds the new token only.
Put_Fresh(d, key, value) == [t \in {key} |-> value]

\* replacements[key] = value
Put(d, key, value) ==
    [t \in DOMAIN d \cup {key} |-> IF t = key THEN value ELSE d[t]]

next_page_number(pages) == Len(pages) + 1

\* os.path.join(a5_pages_dir, f'{next_page_number():03d}_{output_name}')
OutputFilename(y, pages, output_name) ==
    "planner_files_" \o Str(y) \o "/a5_pages/"
        \o Pad3(next_page_number(pages)) \o "_" \o output_name

\* The file add_page_from_template writes: the template with every token of
\* the mapping replaced by its value.
WrittenPage(y, pages, repl, template_name, output_name) ==
    [filename |-> OutputFilename(y, pages, output_name),
     template |-> template_name,
     content  |-> repl]

add_blank_page(pages) == Append(pages, None)

add_page_from_template(y, pages, output_name) ==
    Append(pages, OutputFilename(y, pages, output_name))

-----------------------------------------------------------------------------
(* The week loop *)

\* Variant: the week number of 31 December, which may be week 1 of the next year.
n_weeks_in_year_Dec31(y) == IsoCalendar(Date(y, 12, 31)).week

n_weeks_in_year(y) == IsoCalendar(Date(y, 12, 28)).week

middle_day_of_week(y, w) == FromIsoCalendar(y, w, 4)

\* Variant: steps back two weeks.
middle_day_of_previous_week_14(y, w) == AddDays(middle_day_of_week(y, w), -14)

middle_day_of_previous_week(y, w) == AddDays(middle_day_of_week(y, w), -7)

\* Variant: misses the step from December to January.
IsNewMonth_Greater(y, w) ==
    middle_day_of_week(y, w).month > middle_day_of_previous_week(y, w).month

IsNewMonth(y, w) ==
    middle_day_of_week(y, w).month # middle_day_of_previous_week(y, w).month

\* Variant: the grid starts on the Sunday before.
first_day_of_grid_OffByOne(y, m) ==
    AddDays(Date(y, m, 1), -IsoCalendar(Date(y, m, 1)).weekday)

first_day_of_grid(y, m) ==
    AddDays(Date(y, m, 1), -(IsoCalendar(Date(y, m, 1)).weekday - 1))

GridToken(i) == "{" \o Str(i) \o "}"

GridTokens == {GridToken(i) : i \in 1..42}

\* The value given to token {day+1}, day in 0..41, of the grid that starts
\* on the date first.
GridValue(first, m, day) ==
    LET date == AddDays(first, day)
    IN  IF date.month # m THEN "" ELSE Str(date.day)

weeks_in_month(y, m) ==
    LET first == first_day_of_grid(y, m)
    IN  {IsoCalendar(AddDays(first, day)).week :
            day \in {d \in 0..41 : AddDays(first, d).month = m}}

n_weeks_in_month(y, m) == Cardinality(weeks_in_month(y, m))

MonthReplacements(repl, y, m) ==
    LET first == first_day_of_grid(y, m)
    IN  [t \in DOMAIN repl \cup GridTokens \cup {"{MONTH}"} |->
            IF t = "{MONTH}" THEN MonthName[m]
            ELSE IF t \in GridTokens
            THEN GridValue(first, m, (CHOOSE i \in 1..42 : GridToken(i) = t) - 1)
            ELSE repl[t]]

\* Variant: a blank before January's summary too.
NeedsBlankBefore_Always(m) == TRUE

NeedsBlankBefore(m) == m # 1

MonthTemplate(y, m) == "month_summary_" \o Str(n_weeks_in_month(y, m)) \o "wk.svg"

MonthOutputName(m) == MonthName[m] \o "_start_page.svg"

week_description_text(y, w) == Str(y) \o " WEEK " \o Str(w)

WeekPadOutputName(w) == "week_pad_week" \o Str(w) \o ".svg"

days_of_week(y, w) ==
    [day \in 1..7 |-> AddDays(FromIsoCalendar(y, w, 1), day - 1)]

\* Variant: names the first month only.
month_days_text_OneMonth(days) ==
    MonthName[days[1].month] \o " " \o Str(days[1].day) \o " - " \o Str(days[7].day)

month_days_text(days) ==
    IF days[1].month = days[7].month
    THEN MonthName[days[1].month] \o " " \o Str(days[1].day)
            \o " - " \o Str(days[7].day)
    ELSE MonthName[days[1].month] \o " " \o Str(days[1].day)
            \o " - " \o MonthName[days[7].month] \o " " \o Str(days[7].day)

DomTokens == <<"{mon_dom}", "{tue_dom}", "{wed_dom}", "{thur_dom}",
               "{fri_dom}", "{sat_dom}", "{sun_dom}">>

DayListReplacements(repl, days) ==
    [t \in DOMAIN repl \cup {"{MONTH_DAYS_TEXT}"} \cup {DomTokens[i] : i \in 1..7} |->
        IF t = "{MONTH_DAYS_TEXT}" THEN month_days_text(days)
        ELSE IF \E i \in 1..7 : DomTokens[i] = t
        THEN Str(days[CHOOSE i \in 1..7 : DomTokens[i] = t].day)
        ELSE repl[t]]

WeekDayListOutputName(w) == "week_daylist_week" \o Str(w) \o ".svg"

-----------------------------------------------------------------------------
(* Padding and packing *)

\* Variant: pads to an even length only.
NeedsPadding_Even(pages) == Len(pages) % 2 # 0

NeedsPadding(pages) == Len(pages) % 4 # 0

\* Variant: the second sheet mirrored, (left=p2, right=p1).
ReorderSheets_Booklet(p) ==
    <<[left_a5 |-> p[4], right_a5 |-> p[1]], [left_a5 |-> p[3], right_a5 |-> p[2]]>>

\* The four pops of one iteration in reorder mode, as <<first, second>> sheets.
ReorderSheets(p) ==
    <<[left_a5 |-> p[4], right_a5 |-> p[1]], [left_a5 |-> p[2], right_a5 |-> p[3]]>>

\* Variant: the first two pops assigned right then left.
NaturalSheets_Swapped(p) ==
    <<[left_a5 |-> p[2], right_a5 |-> p[1]], [left_a5 |-> p[3], right_a5 |-> p[4]]>>

\* The four pops of one iteration when the pages are left in order.
NaturalSheets(p) ==
    <<[left_a5 |-> p[1], right_a5 |-> p[2]], [left_a5 |-> p[3], right_a5 |-> p[4]]>>

A4Filename(y, n) == "planner_files_" \o Str(y) \o "/a4_svgs/" \o Pad3(n) \o ".svg"

\* write_a4_svg(left_a5, right_a5, a4_filename)
write_a4_svg(sheet, a4_filename) ==
    [a4_filename |-> a4_filename, left_a5 |-> sheet.left_a5, right_a5 |-> sheet.right_a5]

-----------------------------------------------------------------------------
(* The script *)

Init ==
    /\ year \in MinYear..MaxYear
    /\ reorder \in BOOLEAN
    /\ pc = "start"
    /\ week = 1
    /\ replacements = << >>
    /\ a5_pages = << >>
    /\ output_svg = [filename |-> None, template |-> "", content |-> << >>]
    /\ padded = << >>
    /\ a4_num = 1
    /\ a4_svg_files = << >>

\* Lines 99-100, and entry into the week loop.
LeadingBlank ==
    /\ pc = "start"
    /\ a5_pages' = IF ~reorder THEN add_blank_page(a5_pages) ELSE a5_pages
    /\ week' = 1
    /\ pc' = "month"
    /\ UNCHANGED <<year, reorder, replacements, output_svg, padded, a4_num, a4_svg_files>>

\* Lines 107-159 when the month of the middle day changed.
NewMonth ==
    /\ pc = "month"
    /\ IsNewMonth(year, week)
    /\ LET month == middle_day_of_week(year, week).month
           repl == MonthReplacements(replacements, year, month)
           pages == IF NeedsBlankBefore(month) THEN add_blank_page(a5_pages)
                    ELSE a5_pages
       IN  /\ replacements' = repl
           /\ output_svg' = WrittenPage(year, pages, repl, MonthTemplate(year, month),
                                        MonthOutputName(month))
           /\ a5_pages' = add_page_from_template(year, pages, MonthOutputName(month))
    /\ pc' = "week_pad"
    /\ UNCHANGED <<year, reorder, week, padded, a4_num, a4_svg_files>>

\* Lines 107-111 when it did not.
SameMonth ==
    /\ pc = "month"
    /\ ~IsNewMonth(year, week)
    /\ pc' = "week_pad"
    /\ UNCHANGED <<year, reorder, week, replacements, a5_pages, output_svg, padded,
                   a4_num, a4_svg_files>>

\* Lines 162-169.
WeekPad ==
    /\ pc = "week_pad"
    /\ LET repl == Put(replacements, "{WEEK_DESCRIPTION_TEXT}",
                       week_description_text(year, week))
       IN  /\ replacements' = repl
           /\ output_svg' = WrittenPage(year, a5_pages, repl, "week_pad.svg",
                                        WeekPadOutputName(week))
           /\ a5_pages' = add_page_from_template(year, a5_pages, WeekPadOutputName(week))
    /\ pc' = "week_daylist"
    /\ UNCHANGED <<year, reorder, week, padded, a4_num, a4_svg_files>>

\* Lines 172-202.  Line 182 rebinds month to the month name; line 108 binds
\* it again before its next use, so the binding is not part of the state.
WeekDayList ==
    /\ pc = "week_daylist"
    /\ LET repl == DayListReplacements(replacements, days_of_week(year, week))
       IN  /\ replacements' = repl
           /\ output_svg' = WrittenPage(year, a5_pages, repl, "week_daylist.svg",
                                        WeekDayListOutputName(week))
           /\ a5_pages' = add_page_from_template(year, a5_pages,
                                                 WeekDayListOutputName(week))
    /\ pc' = "for"
    /\ UNCHANGED <<year, reorder, week, padded, a4_num, a4_svg_files>>

\* Line 104: range(1, n_weeks_in_year + 1) gives the next week.
NextWeek ==
    /\ pc = "for"
    /\ week < n_weeks_in_year(year)
    /\ week' = week + 1
    /\ pc' = "month"
    /\ UNCHANGED <<year, reorder, replacements, a5_pages, output_svg, padded,
                   a4_num, a4_svg_files>>

\* Lines 104, 204: the range is exhausted; week keeps its last value.
EndWeeks ==
    /\ pc = "for"
    /\ ~(week < n_weeks_in_year(year))
    /\ pc' = "pad"
    /\ UNCHANGED <<year, reorder, week, replacements, a5_pages, output_svg, padded,
                   a4_num, a4_svg_files>>

\* Lines 206-207: one iteration of the padding loop.
PadPage ==
    /\ pc = "pad"
    /\ NeedsPadding(a5_pages)
    /\ a5_pages' = Append(a5_pages, None)
    /\ UNCHANGED <<year, reorder, pc, week, replacements, output_svg, padded,
                   a4_num, a4_svg_files>>

\* Lines 206, 211-213: the padding loop ends, the packing loop is entered.
StartPacking ==
    /\ pc = "pad"
    /\ ~NeedsPadding(a5_pages)
    /\ padded' = a5_pages
    /\ pc' = "pack"
    /\ UNCHANGED <<year, reorder, week, replacements, a5_pages, output_svg,
                   a4_num, a4_svg_files>>

\* Lines 214-234: one iteration of the packing loop.  pop(0) of an empty list
\* raises IndexError and ends the script.
PackGroup ==
    /\ pc = "pack"
    /\ Len(a5_pages) > 0
    /\ IF Len(a5_pages) < 4
       THEN /\ a5_pages' = << >>
            /\ pc' = "IndexError"
            /\ UNCHANGED <<a4_num, a4_svg_files>>
       ELSE LET sheets == IF reorder THEN ReorderSheets(a5_pages)
                          ELSE NaturalSheets(a5_pages)
            IN  /\ a5_pages' = SubSeq(a5_pages, 5, Len(a5_pages))
                /\ a4_svg_files' = a4_svg_files
                       \o <<write_a4_svg(sheets[1], A4Filename(year, a4_num)),
                            write_a4_svg(sheets[2], A4Filename(year, a4_num + 1))>>
                /\ a4_num' = a4_num + 2
                /\ pc' = "pack"
    /\ UNCHANGED <<year, reorder, week, replacements, output_svg, padded>>

Next ==
    \/ LeadingBlank
    \/ NewMonth
    \/ SameMonth
    \/ WeekPad
    \/ WeekDayList
    \/ NextWeek
    \/ EndWeeks
    \/ PadPage
    \/ StartPacking
    \/ PackGroup

Spec == Init /\ [][Next]_vars

\* The packing loop has ended.
Done == pc = "pack" /\ a5_pages = << >>

-----------------------------------------------------------------------------
(* Padding *)

\* The number of None slots at the end of seq.
TrailingBlanks(seq) ==
    Len(seq) - (IF \E i \in 1..Len(seq) : seq[i] # None
                THEN CHOOSE i \in 1..Len(seq) :
                        seq[i] # None /\ \A j \in (i + 1)..Len(seq) : seq[j] = None
                ELSE 0)

\* What enters the packing loop: a multiple of four slots, the last week page
\* (the file written last) followed by fewer than four blanks.
C1_Entering ==
    pc = "pack" =>
        /\ Len(padded) % 4 = 0
        /\ TrailingBlanks(padded) < 4
        /\ TrailingBlanks(padded) < Len(padded)
        /\ padded[Len(padded) - TrailingBlanks(padded)] = output_svg.filename
        /\ output_svg.template = "week_daylist.svg"

\* A step of the padding loop appends one blank and keeps every slot.
C1_PadStep ==
    pc = "pad" =>
        \/ a5_pages' = a5_pages
        \/ a5_pages' = Append(a5_pages, None)

\* C1: for every year of MinYear..MaxYear and both values of the reorder flag,
\* the page sequence that enters the packing loop has a length divisible by 4;
\* the padding appends only blanks, fewer than 4, after the last week page and
\* changes no existing slot.
C1_PaddedMultipleOf4 == []C1_Entering /\ [][C1_PadStep]_vars

\* Three blanks were appended (reorder mode, a year of 53 weeks).
C1_Witness ==
    /\ pc = "pack"
    /\ reorder
    /\ TrailingBlanks(padded) = 3
    /\ Len(padded) % 4 = 0

-----------------------------------------------------------------------------
(* Packing *)

\* The slots of the sheets written so far, each sheet read left then right.
LeftThenRight(files) ==
    [i \in 1..(2 * Len(files)) |->
        IF i % 2 = 1 THEN files[(i + 1) \div 2].left_a5 ELSE files[i \div 2].right_a5]

\* C2: in natural-order mode the (left, right) pairs of the sheets, in emission
\* order and read left then right, followed by the pages not yet packed, are the
\* padded page sequence; when the loop ends the sequence is drained and the
\* number of sheets is half its length.
C2_NaturalRoundTrip ==
    (pc = "pack" /\ ~reorder) =>
        /\ LeftThenRight(a4_svg_files) \o a5_pages = padded
        /\ Done => 2 * Len(a4_svg_files) = Len(padded)
        /\ \A n \in 1..Len(a4_svg_files) :
               a4_svg_files[n].a4_filename = A4Filename(year, n)

C2_Witness ==
    /\ Done
    /\ ~reorder
    /\ Len(a4_svg_files) = 66
    /\ a4_svg_files[1].left_a5 = None
    /\ a4_svg_files[1].right_a5 # None

\* One physical sheet, front and back, turned about its vertical centre line and
\* cut in half: the right half's leaf (front right, backed by back left), then
\* the left half's leaf (back right, backed by front left).
FlipAndRecollate(front, back) ==
    <<front.right_a5, back.left_a5, back.right_a5, front.left_a5>>

RECURSIVE Recollated(_)
Recollated(files) ==
    IF Len(files) < 2 THEN << >>
    ELSE FlipAndRecollate(files[1], files[2]) \o Recollated(SubSeq(files, 3, Len(files)))

\* C3: in reorder mode the sheets of group [p0,p1,p2,p3] are (left=p3, right=p0)
\* and (left=p1, right=p2), and flip-and-recollate of the sheets, followed by the
\* pages not yet packed, is the padded page sequence.
C3_ReorderRoundTrip ==
    (pc = "pack" /\ reorder) =>
        /\ Len(a4_svg_files) % 2 = 0
        /\ \A g \in 1..(Len(a4_svg_files) \div 2) :
              /\ a4_svg_files[2 * g - 1].left_a5 = padded[4 * g]
              /\ a4_svg_files[2 * g - 1].right_a5 = padded[4 * g - 3]
              /\ a4_svg_files[2 * g].left_a5 = padded[4 * g - 2]
              /\ a4_svg_files[2 * g].right_a5 = padded[4 * g - 1]
        /\ Recollated(a4_svg_files) \o a5_pages = padded
        /\ Done => 2 * Len(a4_svg_files) = Len(padded)

\* A year of 52 weeks: 127 pages and one blank, which is p3 of the last group.
C3_Witness ==
    /\ Done
    /\ reorder
    /\ Len(a4_svg_files) = 64
    /\ a4_svg_files[1].left_a5 # None
    /\ a4_svg_files[63].left_a5 = None

-----------------------------------------------------------------------------
(* The page sequence of a year *)

\* The file name of page number n made from output_name.
PageFile(n, output_name) ==
    "planner_files_" \o Str(year) \o "/a5_pages/" \o Pad3(n) \o "_" \o output_name

\* Where seq holds the month-summary page of month m.
SummaryIndexes(seq, m) ==
    LET name == MonthName[m] \o "_start_page.svg"
    IN  {i \in 1..Len(seq) : seq[i] = PageFile(i, name)}

\* Where seq holds the week-pad page of week w.
PadIndexes(seq, w) ==
    LET name == "week_pad_week" \o Str(w) \o ".svg"
    IN  {i \in 1..Len(seq) : seq[i] = PageFile(i, name)}

\* Where seq holds the day-list page of week w.
DayListIndexes(seq, w) ==
    LET name == "week_daylist_week" \o Str(w) \o ".svg"
    IN  {i \in 1..Len(seq) : seq[i] = PageFile(i, name)}

AllSummaryIndexes(seq) == UNION {SummaryIndexes(seq, m) : m \in 1..12}

\* The ISO week number of 28 December.
LastIsoWeek == IsoCalendar(Date(year, 12, 28)).week

\* The month of the Thursday of ISO week w of the year.
AnchorMonth(w) == FromIsoCalendar(year, w, 4).month

\* The calendar months (with their years) that hold a day of an ISO week of
\* the year.
MonthsOfIsoYear ==
    {<<FromIsoCalendar(year, w, d).year, FromIsoCalendar(year, w, d).month>> :
        w \in 1..LastIsoWeek, d \in 1..7}

\* C4 as stated: one month-summary page per calendar month that holds a day of
\* an ISO week of the year, December of the year before and January of the year
\* after included.
C4_OnePerMonthOfIsoYear ==
    Done => Cardinality(AllSummaryIndexes(padded)) = Cardinality(MonthsOfIsoYear)

\* C4, amended: exactly one month-summary page per calendar month that holds
\* the Thursday of an ISO week of the year, which are the twelve months of the
\* year; a December of the year before or a January of the year after that
\* only holds other days of week 1 or of the last week gets none.
C4_OnePerAnchorMonth ==
    Done =>
        /\ \A m \in {AnchorMonth(w) : w \in 1..LastIsoWeek} :
               Cardinality(SummaryIndexes(padded, m)) = 1
        /\ Cardinality(AllSummaryIndexes(padded))
               = Cardinality({AnchorMonth(w) : w \in 1..LastIsoWeek})
        /\ {AnchorMonth(w) : w \in 1..LastIsoWeek} = 1..12

\* A year whose week 1 starts in December and whose last week ends in January.
C4_Witness ==
    /\ Done
    /\ Cardinality(MonthsOfIsoYear) = 14
    /\ Cardinality(AllSummaryIndexes(padded)) = 12

\* C5: every month-summary page is in the right-hand slot of its sheet: without
\* reordering at an odd 0-based index with a blank in the left slot, with
\* reordering at an even 0-based index.
C5_SummaryOnRight ==
    Done =>
        \A i \in AllSummaryIndexes(padded) :
            /\ ~reorder => ((i - 1) % 2 = 1 /\ padded[i - 1] = None)
            /\ reorder => (i - 1) % 2 = 0
            /\ \E n \in 1..Len(a4_svg_files) :
                  /\ a4_svg_files[n].right_a5 = padded[i]
                  /\ ~reorder => a4_svg_files[n].left_a5 = None
            /\ \A n \in 1..Len(a4_svg_files) : a4_svg_files[n].left_a5 # padded[i]

\* With reordering, summaries were placed as p0 and as p2 of their groups.
C5_Witness ==
    /\ Done
    /\ reorder
    /\ \E i \in AllSummaryIndexes(padded) : (i - 1) % 4 = 0
    /\ \E i \in AllSummaryIndexes(padded) : (i - 1) % 4 = 2

\* C6: for every ISO week w from 1 to the week number of 28 December there is
\* exactly one week-pad page and one day-list page, consecutive and in that
\* order, right after the month-summary page of w's month when w starts a month
\* and right after the day-list page of week w-1 otherwise; weeks are in
\* increasing order, there are no other week pages, and the sequence starts
\* with a blank (only without reordering), the January summary, the week pad
\* and the day list of week 1.
C6_WeekPages ==
    Done =>
        LET first == IF reorder THEN 1 ELSE 2
            pad(w) == CHOOSE i \in PadIndexes(padded, w) : TRUE
        IN  /\ \A w \in 1..LastIsoWeek :
                  /\ Cardinality(PadIndexes(padded, w)) = 1
                  /\ DayListIndexes(padded, w) = {pad(w) + 1}
                  /\ IF w = 1 \/ AnchorMonth(w) # AnchorMonth(w - 1)
                     THEN pad(w) - 1 \in SummaryIndexes(padded, AnchorMonth(w))
                     ELSE pad(w) - 1 \in DayListIndexes(padded, w - 1)
                  /\ w > 1 => pad(w - 1) < pad(w)
            /\ Cardinality({i \in 1..Len(padded) : padded[i] # None})
                  = 2 * LastIsoWeek + Cardinality(AllSummaryIndexes(padded))
            /\ ~reorder => padded[1] = None
            /\ SummaryIndexes(padded, 1) = {first}
            /\ pad(1) = first + 1

\* A year of 53 weeks, without reordering.
C6_Witness ==
    /\ Done
    /\ ~reorder
    /\ LastIsoWeek = 53
    /\ PadIndexes(padded, 53) # {}

\* C8: the month-summary pages are those of January, ..., December, in that
\* order and each exactly once; the Thursday of week 1 is in January and the
\* Thursday before it is not; the months of the Thursdays of two consecutive
\* weeks are equal or consecutive.
C8_MonthsInOrder ==
    /\ Done =>
          /\ \A m \in 1..12 : Cardinality(SummaryIndexes(padded, m)) = 1
          /\ \A m \in 1..11 :
                \A i \in SummaryIndexes(padded, m) :
                    \A j \in SummaryIndexes(padded, m + 1) : i < j
    /\ pc = "month" =>
          LET anchor == FromIsoCalendar(year, week, 4)
              before == Ord2Ymd(ToOrdinal(anchor) - 7)
          IN  /\ week = 1 => (anchor.month = 1 /\ before.month = 12)
              /\ week > 1 => (anchor.month = before.month
                                \/ anchor.month = before.month + 1)
              /\ anchor.year = year

\* All twelve summaries were emitted and the year's last boundary was crossed.
C8_Witness ==
    /\ Done
    /\ SummaryIndexes(padded, 12) # {}
    /\ SummaryIndexes(padded, 1) # {}

-----------------------------------------------------------------------------
(* The text of the pages *)

\* The day-list page of the current week has just been written.
DayListWritten == pc = "for"

\* C7: the day-list page of week w carries the days of the seven consecutive
\* dates from the Monday of ISO week w in {mon_dom}..{sun_dom}, and the header
\* '<MONTH> <d1> - <d7>' when Monday and Sunday are in the same month and
\* '<MONTH1> <d1> - <MONTH2> <d7>' exactly when they are not.
C7_DayList ==
    DayListWritten =>
        LET c == output_svg.content
            monday == FromIsoCalendar(year, week, 1)
            date(i) == Ord2Ymd(ToOrdinal(monday) + i - 1)
            dom == <<"{mon_dom}", "{tue_dom}", "{wed_dom}", "{thur_dom}",
                     "{fri_dom}", "{sat_dom}", "{sun_dom}">>
            d1 == Str(date(1).day)
            d7 == Str(date(7).day)
        IN  /\ IsoCalendar(monday) = [year |-> year, week |-> week, weekday |-> 1]
            /\ output_svg.template = "week_daylist.svg"
            /\ output_svg.filename = a5_pages[Len(a5_pages)]
            /\ \A i \in 1..7 : dom[i] \in DOMAIN c /\ c[dom[i]] = Str(date(i).day)
            /\ "{MONTH_DAYS_TEXT}" \in DOMAIN c
            /\ date(1).month = date(7).month =>
                  c["{MONTH_DAYS_TEXT}"]
                      = MonthName[date(1).month] \o " " \o d1 \o " - " \o d7
            /\ date(1).month # date(7).month =>
                  c["{MONTH_DAYS_TEXT}"]
                      = MonthName[date(1).month] \o " " \o d1 \o " - "
                            \o MonthName[date(7).month] \o " " \o d7
            /\ (year = 2024 /\ week = 1) => c["{MONTH_DAYS_TEXT}"] = "JANUARY 1 - 7"
            /\ (year = 2024 /\ week = 5) =>
                  c["{MONTH_DAYS_TEXT}"] = "JANUARY 29 - FEBRUARY 4"

\* The week of 29 January - 4 February 2024.
C7_Witness ==
    /\ DayListWritten
    /\ year = 2024
    /\ week = 5
    /\ output_svg.content["{MONTH_DAYS_TEXT}"] = "JANUARY 29 - FEBRUARY 4"
    /\ output_svg.content["{mon_dom}"] = "29"
    /\ output_svg.content["{sun_dom}"] = "4"

\* The date of cell i (1..42) of the grid of month m: the Monday on or before
\* the first of m, plus i - 1 days.
GridCell(m, i) ==
    LET first == Ymd2Ord(year, m, 1)
    IN  Ord2Ymd(first - ((first + 6) % 7) + i - 1)

\* What token {i} of the grid of month m stands for.
GridText(m, i) == IF GridCell(m, i).month = m THEN Str(GridCell(m, i).day) ELSE ""

\* A month-summary page has just been written.
SummaryWritten ==
    /\ pc = "week_pad"
    /\ output_svg.template \notin {"", "week_pad.svg", "week_daylist.svg"}

\* C9: on the month-summary page of month M, token {i} is the day of the date
\* (Monday on or before the 1st of M) + (i-1) days, or empty when that date is
\* outside M; every day of M appears once, in increasing order; the template is
\* month_summary_<k>wk.svg with k the number of distinct ISO week numbers of
\* the days of M, k is 4, 5 or 6 and is the number of grid rows that hold a day
\* of M; January 2024 has k = 5.
C9_MonthGrid ==
    SummaryWritten =>
        /\ \E m \in 1..12 :
              output_svg.filename = PageFile(Len(a5_pages), MonthName[m] \o "_start_page.svg")
        /\ LET c == output_svg.content
               M == CHOOSE m \in 1..12 :
                       output_svg.filename
                           = PageFile(Len(a5_pages), MonthName[m] \o "_start_page.svg")
               tok(i) == "{" \o Str(i) \o "}"
               inside == {i \in 1..42 : GridCell(M, i).month = M}
               rows == {r \in 0..5 : \E col \in 1..7 : (7 * r + col) \in inside}
               isoweeks == {IsoCalendar(GridCell(M, i)).week : i \in inside}
               k == Cardinality(isoweeks)
               cellOf(d) == CHOOSE i \in 1..42 : c[tok(i)] = Str(d)
           IN  /\ \A i \in 1..42 : tok(i) \in DOMAIN c /\ c[tok(i)] = GridText(M, i)
               /\ \A d \in 1..DaysInMonth(year, M) :
                     Cardinality({i \in 1..42 : c[tok(i)] = Str(d)}) = 1
               /\ \A d \in 2..DaysInMonth(year, M) : cellOf(d - 1) < cellOf(d)
               /\ Cardinality({i \in 1..42 : c[tok(i)] # ""}) = DaysInMonth(year, M)
               /\ k \in {4, 5, 6}
               /\ k = Cardinality(rows)
               /\ output_svg.template = "month_summary_" \o Str(k) \o "wk.svg"
               /\ (year = 2024 /\ M = 1) => k = 5

\* December 2024: six rows, the last one in ISO week 1 of 2025.
C9_Witness ==
    /\ SummaryWritten
    /\ year = 2024
    /\ output_svg.template = "month_summary_6wk.svg"
    /\ output_svg.content["{MONTH}"] = "DECEMBER"
    /\ output_svg.content["{37}"] = "31"

MonthTokens == {"{MONTH}"} \cup {"{" \o Str(i) \o "}" : i \in 1..42}

\* Every page of the current week written so far was rendered from the mapping
\* as it stands, whose month tokens are those of the month of the week's
\* Thursday; the week token is that of the week once its week pad is written.
C10_PageTokens ==
    pc \in {"week_pad", "week_daylist", "for"} =>
        LET c == output_svg.content
            M == AnchorMonth(week)
        IN  /\ c = replacements
            /\ MonthTokens \subseteq DOMAIN c
            /\ c["{MONTH}"] = MonthName[M]
            /\ \A i \in 1..42 : c["{" \o Str(i) \o "}"] = GridText(M, i)
            /\ pc \in {"week_daylist", "for"} =>
                  /\ "{WEEK_DESCRIPTION_TEXT}" \in DOMAIN c
                  /\ c["{WEEK_DESCRIPTION_TEXT}"] = Str(year) \o " WEEK " \o Str(week)
                  /\ output_svg.template
                        = (IF pc = "for" THEN "week_daylist.svg" ELSE "week_pad.svg")

\* The week loop detects a month boundary in this step.
BoundaryStep ==
    /\ pc = "month"
    /\ AnchorMonth(week) # Ord2Ymd(ToOrdinal(FromIsoCalendar(year, week, 4)) - 7).month

\* No token is ever removed, and the month tokens change only in a step that
\* detects a month boundary.
C10_Rolling ==
    /\ DOMAIN replacements \subseteq DOMAIN replacements'
    /\ ~BoundaryStep =>
          \A t \in MonthTokens :
              /\ t \in DOMAIN replacements' => t \in DOMAIN replacements
              /\ t \in DOMAIN replacements => replacements'[t] = replacements[t]

\* C10: the substitution mapping is a rolling context that is never cleared:
\* any page of week w is written with {MONTH} and {1}..{42} of the month of w's
\* Thursday, these tokens are written only when a month boundary is detected,
\* and {WEEK_DESCRIPTION_TEXT} is '<Y> WEEK <w>' on the week pad and the day
\* list of w.
C10_RollingContext == []C10_PageTokens /\ [][C10_Rolling]_vars

\* The week pad of a week that starts no month, rendered with the month tokens
\* set three weeks earlier and the day tokens of the week before.
C10_Witness ==
    /\ pc = "week_daylist"
    /\ year = 2024
    /\ week = 4
    /\ output_svg.template = "week_pad.svg"
    /\ output_svg.content["{MONTH}"] = "JANUARY"
    /\ output_svg.content["{31}"] = "31"
    /\ output_svg.content["{WEEK_DESCRIPTION_TEXT}"] = "2024 WEEK 4"
    /\ output_svg.content["{mon_dom}"] = "15"

====
